---------------------------- MODULE Spec2Model ----------------------------
(***************************************************************************)
(* The MinHash similarity index of sentry (src/src/sentry/similarity.py):  *)
(* MinHashIndex over a Redis cluster, the GroupFeature binding and the     *)
(* GroupFeatureManager aggregator.                                         *)
(*                                                                         *)
(* Strings are sequences of byte values (":" is 58, "0" is 48, ...), so    *)
(* that the formatting of the Redis key names is modelled by what it does. *)
(* Similarities are fixed-point numbers in units of 1/Scale.               *)
(***************************************************************************)
EXTENDS Integers, Sequences, FiniteSets, TLC

(***************************************************************************)
(* Bounds of the model.                                                    *)
(***************************************************************************)
\* Number of MinHashIndex.record calls in one behaviour of Spec.
MaxRecords == 3
\* Number of GroupFeatureManager.record calls in one behaviour of SpecFeatures.
MaxEvents == 2
MaxWriters == 2
MaxWorkers == 2
MaxCommits == 2
MaxLimbs == 5
MaxCount == 2
\* Fixed-point resolution of the floating point similarities.
Scale == 1000

(***************************************************************************)
(* Byte strings.                                                           *)
(***************************************************************************)
\* ':'.join(sequence)
RECURSIVE flatten_sequence(_)
flatten_sequence(sequence) ==
    IF Len(sequence) = 0 THEN <<>>
    ELSE IF Len(sequence) = 1 THEN sequence[1]
    ELSE sequence[1] \o <<58>> \o flatten_sequence(Tail(sequence))

\* str(n) for a non-negative integer, as '{}'.format(n) renders it
RECURSIVE str(_)
str(n) == IF n < 10 THEN <<48 + n>> ELSE str(n \div 10) \o <<48 + (n % 10)>>

\* Python's ordering of byte strings: a < b
RECURSIVE str_lt(_, _)
str_lt(a, b) ==
    IF Len(b) = 0 THEN FALSE
    ELSE IF Len(a) = 0 THEN TRUE
    ELSE IF a[1] # b[1] THEN a[1] < b[1]
    ELSE str_lt(Tail(a), Tail(b))

(***************************************************************************)
(* Bucket key codec.                                                       *)
(***************************************************************************)
\* Sizes go beyond the integers of the checker (2 ** 64 and more), so a
\* size is a sequence of 16-bit limbs, the least significant first and the
\* last one not 0; 0 is the empty sequence.
Limb == 65536

\* the size n, for 0 <= n < Limb
number(n) == IF n = 0 THEN <<>> ELSE <<n>>

\* a >= b
RECURSIVE geq(_, _)
geq(a, b) ==
    IF Len(a) # Len(b) THEN Len(a) > Len(b)
    ELSE IF Len(a) = 0 THEN TRUE
    ELSE IF a[Len(a)] # b[Len(b)] THEN a[Len(a)] > b[Len(b)]
    ELSE geq(SubSeq(a, 1, Len(a) - 1), SubSeq(b, 1, Len(b) - 1))

\* The table of (maximum, packer), sorted: the maximums 2 ** 8 - 1,
\* 2 ** 16 - 1, 2 ** 32 - 1 and 2 ** 64 - 1, and the number of bytes that
\* the struct formats '>B', '>H', '>L', '>Q' pack into, big-endian.
formatters ==
    << [maximum |-> <<255>>, width |-> 1],
       [maximum |-> <<65535>>, width |-> 2],
       [maximum |-> <<65535, 65535>>, width |-> 4],
       [maximum |-> <<65535, 65535, 65535, 65535>>, width |-> 8] >>

\* pack without the leading zero bytes
RECURSIVE pack_minimal(_, _)
pack_minimal(width, n) ==
    IF n = 0 THEN <<>> ELSE pack_minimal(width, n \div 256) \o <<n % 256>>

\* struct.Struct(format).pack(n): the big-endian bytes of n, `width` of them
RECURSIVE pack(_, _)
pack(width, n) ==
    IF width = 0 THEN <<>> ELSE pack(width - 1, n \div 256) \o <<n % 256>>

\* get_number_formatter comparing with maximum > size
get_number_formatter_strict(size) ==
    LET fits == {i \in 1..Len(formatters) : ~geq(size, formatters[i].maximum)}
    IN  IF size = <<>> THEN [raised |-> "AssertionError", width |-> 0]
        ELSE IF fits = {} THEN [raised |-> "ValueError", width |-> 0]
        ELSE LET i == CHOOSE i \in fits : \A j \in fits : i <= j
             IN  [raised |-> "", width |-> formatters[i].width]

\* The first formatter whose maximum is >= size, as the number of bytes it
\* packs into; raises AssertionError for size 0 and ValueError when no
\* maximum is large enough.
get_number_formatter(size) ==
    LET fits == {i \in 1..Len(formatters) : geq(formatters[i].maximum, size)}
    IN  IF size = <<>> THEN [raised |-> "AssertionError", width |-> 0]
        ELSE IF fits = {} THEN [raised |-> "ValueError", width |-> 0]
        ELSE LET i == CHOOSE i \in fits : \A j \in fits : i <= j
             IN  [raised |-> "", width |-> formatters[i].width]

(***************************************************************************)
(* The index configuration: MinHashIndex(cluster, rows, bands, buckets).   *)
(* The module builds its indexes with (0xFFFF, 8, 2); the model keeps the  *)
(* two buckets of a band and scales down to 3 rows and 2 bands.            *)
(***************************************************************************)
rows == 3

\* self.namespace = b'sim'
namespace == <<115, 105, 109>>
\* BUCKET_MEMBERSHIP = '0', BUCKET_FREQUENCY = '1'
BUCKET_MEMBERSHIP == <<48>>
BUCKET_FREQUENCY == <<49>>

\* self.bands: bands x buckets shuffles of range(rows), drawn in order from
\* random.Random(0); these are the values that generator yields for
\* rows = 3, bands = 2, buckets = 2.
bands == << << <<0, 1, 2>>, <<2, 0, 1>> >>,
            << <<2, 0, 1>>, <<1, 0, 2>> >> >>

bucket_formatter == get_number_formatter(number(rows)).width

\* b''.join(map(formatter, bucket)), for the formatter packing into
\* `formatter` bytes
RECURSIVE join(_, _)
join(formatter, bucket) ==
    IF Len(bucket) = 0 THEN <<>>
    ELSE pack(formatter, bucket[1]) \o join(formatter, Tail(bucket))

\* b''.join(map(self.__bucket_formatter, bucket))
format_buckets(bucket) == join(bucket_formatter, bucket)

\* b'{}:{}:{}:{}:{}'.format(self.namespace, scope, kind, band, discriminator)
format_key(scope, kind, band, discriminator) ==
    namespace \o <<58>> \o scope \o <<58>> \o kind \o <<58>> \o str(band)
              \o <<58>> \o discriminator

(***************************************************************************)
(* Signature generator.                                                    *)
(***************************************************************************)
\* Tokens are modelled by their hash values.
hash(token) == token

\* next_index with a default: next(..., 0) raises nothing
next_index_default(permutation, columns) ==
    LET hits == {i \in 0..(Len(permutation) - 1) : permutation[i + 1] \in columns}
    IN  IF hits = {} THEN 0
        ELSE CHOOSE i \in hits : \A j \in hits : i <= j

\* next(i for i, a in enumerate(permutation) if a in columns); -1 stands
\* for the StopIteration that next() raises when the scan finds nothing.
next_index(permutation, columns) ==
    LET hits == {i \in 0..(Len(permutation) - 1) : permutation[i + 1] \in columns}
    IN  IF hits = {} THEN -1
        ELSE CHOOSE i \in hits : \A j \in hits : i <= j

\* get_signature that reduces the hashes modulo the number of bands
get_signature_modulo_bands(value) ==
    LET columns == {hash(token) % Len(bands) : token \in value}
        scans == [b \in 1..Len(bands) |->
                     [p \in 1..Len(bands[b]) |-> next_index(bands[b][p], columns)]]
    IN  IF \E b \in 1..Len(bands) : \E p \in 1..Len(bands[b]) : scans[b][p] < 0
        THEN [raised |-> "StopIteration", value |-> <<>>]
        ELSE [raised |-> "", value |-> scans]

\* The signature: one sequence of bucket indices per band. It raises
\* StopIteration as soon as one scan does.
get_signature(value) ==
    LET columns == {hash(token) % rows : token \in value}
        scans == [b \in 1..Len(bands) |->
                     [p \in 1..Len(bands[b]) |-> next_index(bands[b][p], columns)]]
    IN  IF \E b \in 1..Len(bands) : \E p \in 1..Len(bands[b]) : scans[b][p] < 0
        THEN [raised |-> "StopIteration", value |-> <<>>]
        ELSE [raised |-> "", value |-> scans]

(***************************************************************************)
(* The storage backend: the Redis sets and sorted sets of the cluster, by  *)
(* key name. A name that was never written holds the empty set.            *)
(***************************************************************************)
VARIABLES
    cluster,    \* [sets: name -> set of members, zsets: name -> member -> score]
    recorded,   \* history: <<scope, key, characteristics>> -> completed record calls
    events,     \* history: number of GroupFeatureManager.record calls
    call        \* the last call made and what it returned

\* the commands of concurrent record calls that are still to be executed
VARIABLES writers
\* the Release and TagValue tables, the held locks, the calls in progress
\* and the queued tasks
VARIABLES releases, tagvalues, locks, procs, tasks
\* the Commit and GroupCommitResolution tables
VARIABLES commits, resolutions

index_vars == <<cluster, recorded, events>>
release_vars == <<releases, tagvalues, locks, procs, tasks>>
commit_vars == <<commits, resolutions>>
vars == <<cluster, recorded, events, call, writers, release_vars, commit_vars>>

smembers(store, name) ==
    IF name \in DOMAIN store.sets THEN store.sets[name] ELSE {}

\* dict(zrange(name, 0, -1, desc=True, withscores=True)): member -> score
zrange(store, name) ==
    IF name \in DOMAIN store.zsets THEN store.zsets[name] ELSE <<>>

\* sadd that writes the set anew with the one member (a SET of the key)
sadd_replacing(store, name, member) ==
    [store EXCEPT !.sets = (name :> {member}) @@ @]

sadd(store, name, member) ==
    [store EXCEPT !.sets = (name :> (smembers(store, name) \cup {member})) @@ @]

\* zincrby that rewrites the sorted set with the incremented member alone
zincrby_resetting(store, name, member, amount) ==
    LET old == zrange(store, name)
        score == IF member \in DOMAIN old THEN old[member] ELSE 0
    IN  [store EXCEPT !.zsets = (name :> (member :> (score + amount))) @@ @]

zincrby(store, name, member, amount) ==
    LET old == zrange(store, name)
        score == IF member \in DOMAIN old THEN old[member] ELSE 0
    IN  [store EXCEPT !.zsets = (name :> ((member :> (score + amount)) @@ old)) @@ @]

\* One queued command of a cluster.map() batch.
execute_command(store, command) ==
    IF command.name = "sadd"
    THEN sadd(store, command.key, command.member)
    ELSE zincrby(store, command.key, command.member, command.amount)

\* The batch is sent when the `with` block is left without an exception.
RECURSIVE execute(_, _)
execute(store, commands) ==
    IF Len(commands) = 0 THEN store
    ELSE execute(execute_command(store, commands[1]), Tail(commands))

(***************************************************************************)
(* Similarity scoring. A proportion v / total is kept as the pair          *)
(* <<v, total>>; a distance and a similarity are in units of 1 / Scale.    *)
(***************************************************************************)
RECURSIVE sum(_, _)
sum(f, S) ==
    IF S = {} THEN 0
    ELSE LET x == CHOOSE x \in S : TRUE IN f[x] + sum(f, S \ {x})

\* floor(sqrt(n)), by bisection between lo and hi (lo * lo <= n < hi * hi)
RECURSIVE isqrt_between(_, _, _)
isqrt_between(n, lo, hi) ==
    IF hi - lo <= 1 THEN lo
    ELSE LET mid == (lo + hi) \div 2
         IN  IF mid * mid <= n THEN isqrt_between(n, mid, hi)
             ELSE isqrt_between(n, lo, mid)

isqrt(n) == isqrt_between(n, 0, 46341)

\* {k: (v / total) for k, v in value.items()}
scale_to_total(value) ==
    LET total == sum(value, DOMAIN value)
    IN  [k \in DOMAIN value |-> <<value[k], total>>]

\* get_distance that sums over the keys of target alone
get_distance_over_target(target, other) ==
    LET keys == DOMAIN target
        dt == IF DOMAIN target = {} THEN 1
              ELSE target[CHOOSE k \in DOMAIN target : TRUE][2]
        do == IF DOMAIN other = {} THEN 1
              ELSE other[CHOOSE k \in DOMAIN other : TRUE][2]
        nt(k) == IF k \in DOMAIN target THEN target[k][1] ELSE 0
        no(k) == IF k \in DOMAIN other THEN other[k][1] ELSE 0
        squares == [k \in keys |-> (nt(k) * do - no(k) * dt) * (nt(k) * do - no(k) * dt)]
    IN  isqrt(sum(squares, keys) * Scale * Scale) \div (dt * do)

\* sqrt(sum((target.get(k, 0) - other.get(k, 0)) ** 2 for k in set(target) | set(other)))
\* All proportions of one mapping share their denominator, so the sum of
\* the squares is n / (dt * do) ** 2 for the n below.
get_distance(target, other) ==
    LET keys == DOMAIN target \cup DOMAIN other
        dt == IF DOMAIN target = {} THEN 1
              ELSE target[CHOOSE k \in DOMAIN target : TRUE][2]
        do == IF DOMAIN other = {} THEN 1
              ELSE other[CHOOSE k \in DOMAIN other : TRUE][2]
        nt(k) == IF k \in DOMAIN target THEN target[k][1] ELSE 0
        no(k) == IF k \in DOMAIN other THEN other[k][1] ELSE 0
        squares == [k \in keys |-> (nt(k) * do - no(k) * dt) * (nt(k) * do - no(k) * dt)]
    IN  isqrt(sum(squares, keys) * Scale * Scale) \div (dt * do)

\* 1 - sum(map(get_distance, zip(target, other))) / math.sqrt(2) / len(target)
get_similarity(target, other) ==
    LET distances == [b \in 1..Len(target) |-> get_distance(target[b], other[b])]
    IN  Scale - ((sum(distances, 1..Len(target)) * Scale) \div isqrt(2 * Scale * Scale))
                    \div Len(target)

(***************************************************************************)
(* MinHashIndex.query and MinHashIndex.record.                             *)
(***************************************************************************)
\* key -> per band, the scaled bucket frequencies of the key
fetch_bucket_frequencies(store, scope, keys) ==
    [key \in keys |->
        [b \in 1..Len(bands) |->
            scale_to_total(zrange(store, format_key(scope, BUCKET_FREQUENCY, b - 1, key)))]]

\* fetch_candidates with the bands counted from 1
fetch_candidates_from_one(store, scope, signature) ==
    [b \in 1..Len(signature) |->
        UNION {smembers(store, format_key(scope, BUCKET_MEMBERSHIP, b, bucket)) :
                   bucket \in DOMAIN signature[b]}]

\* per band, the union of the membership sets of the signature's buckets
fetch_candidates(store, scope, signature) ==
    [b \in 1..Len(signature) |->
        UNION {smembers(store, format_key(scope, BUCKET_MEMBERSHIP, b - 1, bucket)) :
                   bucket \in DOMAIN signature[b]}]

\* sort_key_lt with the key negated too: ties in descending order of key
sort_key_lt_reversed_ties(a, b) ==
    \/ a[2] > b[2]
    \/ a[2] = b[2] /\ str_lt(b[1], a[1])

\* sorted(items, key=lambda (key, similarity): (similarity * -1, key))
sort_key_lt(a, b) ==
    \/ a[2] > b[2]
    \/ a[2] = b[2] /\ str_lt(a[1], b[1])

RECURSIVE sorted(_)
sorted(items) ==
    IF items = {} THEN <<>>
    ELSE LET first == CHOOSE x \in items : \A y \in items \ {x} : sort_key_lt(x, y)
         IN  <<first>> \o sorted(items \ {first})

\* query with the search key filtered from the candidates
query_without_self(store, scope, key) ==
    LET target_frequencies == fetch_bucket_frequencies(store, scope, {key})[key]
        by_band == fetch_candidates(store, scope, target_frequencies)
        candidates == UNION {by_band[b] : b \in 1..Len(by_band)} \ {key}
        frequencies == fetch_bucket_frequencies(store, scope, candidates)
    IN  sorted({<<k, get_similarity(target_frequencies, frequencies[k])>> :
                    k \in candidates})

query(store, scope, key) ==
    LET target_frequencies == fetch_bucket_frequencies(store, scope, {key})[key]
        by_band == fetch_candidates(store, scope, target_frequencies)
        candidates == UNION {by_band[b] : b \in 1..Len(by_band)}
        frequencies == fetch_bucket_frequencies(store, scope, candidates)
    IN  sorted({<<k, get_similarity(target_frequencies, frequencies[k])>> :
                    k \in candidates})

\* The commands record queues, in the order it queues them.
record_commands(scope, key, signature) ==
    [i \in 1..(2 * Len(signature)) |->
        LET band == (i - 1) \div 2
            buckets == format_buckets(signature[band + 1])
        IN  IF i % 2 = 1
            THEN [name |-> "sadd",
                  key |-> format_key(scope, BUCKET_MEMBERSHIP, band, buckets),
                  member |-> key]
            ELSE [name |-> "zincrby",
                  key |-> format_key(scope, BUCKET_FREQUENCY, band, key),
                  member |-> buckets, amount |-> 1]]

\* record: the signature is computed before any command is queued, so a
\* StopIteration leaves the `with` block with nothing sent.
record(store, scope, key, characteristics) ==
    LET signature == get_signature(characteristics)
    IN  IF signature.raised # ""
        THEN [raised |-> signature.raised, store |-> store]
        ELSE [raised |-> "",
              store |-> execute(store, record_commands(scope, key, signature.value))]

(***************************************************************************)
(* The calls of Spec: scopes and keys are segments joined with ":", as     *)
(* GroupFeature passes them to the index.                                  *)
(***************************************************************************)
\* (scope segments, key segments): "a"/"b", "a"/"c", "a"/"1","0","b" and
\* "a","1","0"/"b"
Entities ==
    { [scope |-> << <<97>> >>, key |-> << <<98>> >>],
      [scope |-> << <<97>> >>, key |-> << <<99>> >>],
      [scope |-> << <<97>> >>, key |-> << <<49>>, <<48>>, <<98>> >>],
      [scope |-> << <<97>>, <<49>>, <<48>> >>, key |-> << <<98>> >>] }

Scopes == {flatten_sequence(e.scope) : e \in Entities}
Keys == {flatten_sequence(e.key) : e \in Entities}
Targets == {<<flatten_sequence(e.scope), flatten_sequence(e.key)>> : e \in Entities}

\* The characteristic sets of the calls: none, {0}, one that shares a band
\* with {0}, one disjoint from it, and one with the columns of {0}.
CharacteristicSets == {{}, {0}, {0, 1}, {2}, {0, 3}}

completed(history) == sum(history, DOMAIN history)

\* the history with one more completed call of `entry`
note(history, entry) ==
    (entry :> (IF entry \in DOMAIN history THEN history[entry] + 1 ELSE 1)) @@ history

\* an empty store, empty tables and no call in progress
Empty ==
    /\ cluster = [sets |-> <<>>, zsets |-> <<>>]
    /\ recorded = <<>>
    /\ events = 0
    /\ writers = <<>>
    /\ releases = <<>> /\ tagvalues = <<>> /\ locks = {}
    /\ procs = <<>> /\ tasks = <<>>
    /\ commits = <<>> /\ resolutions = {}

Init == Empty /\ call = [op |-> "none"]

\* MinHashIndex.record(scope, key, characteristics)
Record(scope, key, characteristics) ==
    LET outcome == record(cluster, scope, key, characteristics)
    IN  /\ completed(recorded) < MaxRecords
        /\ call' = [op |-> "record", scope |-> scope, key |-> key,
                    characteristics |-> characteristics, raised |-> outcome.raised]
        /\ cluster' = outcome.store
        /\ recorded' = IF outcome.raised = ""
                       THEN note(recorded, <<scope, key, characteristics>>)
                       ELSE recorded
        /\ UNCHANGED <<events, writers, release_vars, commit_vars>>

\* whether a query of (scope, key) directly follows one of the same call
repeats(previous, scope, key) ==
    /\ previous.op = "query"
    /\ previous.scope = scope
    /\ previous.key = key

\* Query that marks the key it looked up: a write on the read path
QueryMarkingKey(scope, key) ==
    /\ call' = [op |-> "query", scope |-> scope, key |-> key,
                again |-> repeats(call, scope, key),
                result |-> query(cluster, scope, key)]
    /\ cluster' = sadd(cluster, format_key(scope, BUCKET_MEMBERSHIP, 0, <<>>), key)
    /\ UNCHANGED <<recorded, events, writers, release_vars, commit_vars>>

\* Query that sorts by similarity alone: entries of equal similarity come
\* in whatever order the candidates were iterated in
QueryUnorderedTies(scope, key) ==
    LET result == query(cluster, scope, key)
    IN  /\ \E order \in [DOMAIN result -> DOMAIN result] :
              /\ \A i, j \in DOMAIN result : order[i] = order[j] => i = j
              /\ \A i \in 1..(Len(result) - 1) :
                    result[order[i]][2] >= result[order[i + 1]][2]
              /\ call' = [op |-> "query", scope |-> scope, key |-> key,
                          again |-> repeats(call, scope, key),
                          result |-> [i \in DOMAIN result |-> result[order[i]]]]
        /\ UNCHANGED <<index_vars, writers, release_vars, commit_vars>>

\* MinHashIndex.query(scope, key)
Query(scope, key) ==
    /\ call' = [op |-> "query", scope |-> scope, key |-> key,
                again |-> repeats(call, scope, key),
                result |-> query(cluster, scope, key)]
    /\ UNCHANGED <<index_vars, writers, release_vars, commit_vars>>

Next ==
    \/ \E t \in Targets : \E c \in CharacteristicSets : Record(t[1], t[2], c)
    \/ \E t \in Targets : Query(t[1], t[2])

Spec == Init /\ [][Next]_vars

(***************************************************************************)
(* GroupFeature and GroupFeatureManager. Every feature of the module has   *)
(* an index of its own over the one cluster, a scope made of its prefix    *)
(* and the project id, and the group id as key.                            *)
(***************************************************************************)
\* label -> scope prefix: 'af', 'f', 'm'
features ==
    [label \in {"application-frames", "frames", "message"} |->
        IF label = "application-frames" THEN <<97, 102>>
        ELSE IF label = "frames" THEN <<102>>
        ELSE <<109>>]

\* self.features.items(): the dict's order of iteration
features_items == <<"application-frames", "frames", "message">>

\* scope=lambda group: [prefix, six.text_type(group.project_id)], flattened
feature_scope(label, group) ==
    flatten_sequence(<<features[label], str(group.project_id)>>)

\* key=lambda group: [six.text_type(group.id)], flattened
feature_key(group) == flatten_sequence(<<str(group.id)>>)

\* GroupFeature.query(group)
feature_query(store, label, group) ==
    query(store, feature_scope(label, group), feature_key(group))

\* GroupFeature.record(event): the extraction function raises KeyError on
\* an event without the exception interface, before the index is called.
feature_record(store, label, event) ==
    IF ~event.has_exception
    THEN [raised |-> "KeyError", store |-> store]
    ELSE record(store, feature_scope(label, event.group), feature_key(event.group),
                event.tokens[label])

\* merge_result with results[key] = {label: similarity}: the similarities
\* of the features merged before are lost
RECURSIVE merge_result_overwriting(_, _, _)
merge_result_overwriting(results, label, pairs) ==
    IF Len(pairs) = 0 THEN results
    ELSE merge_result_overwriting((pairs[1][1] :> (label :> pairs[1][2])) @@ results,
                                  label, Tail(pairs))

\* results.setdefault(key, {})[label] = similarity, for each pair of a
\* feature's result
RECURSIVE merge_result(_, _, _)
merge_result(results, label, pairs) ==
    IF Len(pairs) = 0 THEN results
    ELSE LET key == pairs[1][1]
             similarities == IF key \in DOMAIN results THEN results[key] ELSE <<>>
         IN  merge_result((key :> ((label :> pairs[1][2]) @@ similarities)) @@ results,
                          label, Tail(pairs))

\* the loop of GroupFeatureManager.query over the features
RECURSIVE merge_features(_, _, _, _)
merge_features(store, items, group, results) ==
    IF Len(items) = 0 THEN results
    ELSE merge_features(store, Tail(items), group,
             merge_result(results, items[1], feature_query(store, items[1], group)))

\* sum(similarities.values())
total_similarity(similarities) == sum(similarities, DOMAIN similarities)

\* sorted(results.items(), key=sum of the similarities, reverse=True): the
\* sort is stable, so items of equal sum keep the order of the dict, which
\* may be any.
sorted_by_sum(results) ==
    {order \in [1..Cardinality(DOMAIN results) -> DOMAIN results] :
        /\ \A i, j \in DOMAIN order : order[i] = order[j] => i = j
        /\ \A i \in 1..(Len(order) - 1) :
              total_similarity(results[order[i]]) >= total_similarity(results[order[i + 1]])}

\* features_record without the try / except: the first failure ends the loop
RECURSIVE features_record_unguarded(_, _, _)
features_record_unguarded(store, items, event) ==
    IF Len(items) = 0 THEN [store |-> store, results |-> <<>>]
    ELSE LET outcome == feature_record(store, items[1], event)
             rest == features_record_unguarded(outcome.store, Tail(items), event)
         IN  IF outcome.raised # ""
             THEN [store |-> outcome.store, results |-> << <<FALSE, outcome.raised>> >>]
             ELSE [store |-> rest.store, results |-> << <<TRUE, "None">> >> \o rest.results]

\* the loop of GroupFeatureManager.record over the features: each
\* feature's record runs inside try / except Exception
RECURSIVE features_record(_, _, _)
features_record(store, items, event) ==
    IF Len(items) = 0 THEN [store |-> store, results |-> <<>>]
    ELSE LET outcome == feature_record(store, items[1], event)
             rest == features_record(outcome.store, Tail(items), event)
         IN  [store |-> rest.store,
              results |-> << IF outcome.raised = "" THEN <<TRUE, "None">>
                             ELSE <<FALSE, outcome.raised>> >> \o rest.results]

\* the history after the completed record calls of the features
RECURSIVE note_features(_, _, _)
note_features(history, items, event) ==
    IF Len(items) = 0 THEN history
    ELSE LET label == items[1]
             done == event.has_exception /\ get_signature(event.tokens[label]).raised = ""
             entry == <<feature_scope(label, event.group), feature_key(event.group),
                        event.tokens[label]>>
         IN  note_features(IF done THEN note(history, entry) ELSE history,
                           Tail(items), event)

(***************************************************************************)
(* The calls of SpecFeatures.                                              *)
(***************************************************************************)
Groups == {[project_id |-> 1, id |-> 1], [project_id |-> 1, id |-> 2]}

\* the tokens a feature may extract from an event: nothing or {0}, and for
\* the message also a set that shares one band with {0}
FeatureSets(label) == IF label = "message" THEN {{}, {0}, {0, 1}} ELSE {{}, {0}}

\* events with the exception interface, whose features extract any of
\* their FeatureSets, and events without it
Events ==
    {[group |-> g, has_exception |-> TRUE, tokens |-> t] :
        g \in Groups,
        t \in {f \in [DOMAIN features -> {{}, {0}, {0, 1}}] :
                  \A label \in DOMAIN features : f[label] \in FeatureSets(label)}}
    \cup {[group |-> g, has_exception |-> FALSE,
           tokens |-> [label \in DOMAIN features |-> {}]] : g \in Groups}

\* GroupFeatureManager.record(event)
FeaturesRecord(event) ==
    LET outcome == features_record(cluster, features_items, event)
    IN  /\ events < MaxEvents
        /\ events' = events + 1
        /\ cluster' = outcome.store
        /\ recorded' = note_features(recorded, features_items, event)
        /\ call' = [op |-> "features.record", event |-> event,
                    results |-> outcome.results]
        /\ UNCHANGED <<writers, release_vars, commit_vars>>

\* GroupFeatureManager.query(group)
FeaturesQuery(group) ==
    LET results == merge_features(cluster, features_items, group, <<>>)
    IN  /\ \E order \in sorted_by_sum(results) :
              call' = [op |-> "features.query", group |-> group,
                       result |-> [i \in DOMAIN order |-> <<order[i], results[order[i]]>>]]
        /\ UNCHANGED <<index_vars, writers, release_vars, commit_vars>>

NextFeatures ==
    \/ \E event \in Events : FeaturesRecord(event)
    \/ \E group \in Groups : FeaturesQuery(group)

SpecFeatures == Init /\ [][NextFeatures]_vars

(***************************************************************************)
(* The codec by itself: get_number_formatter for sizes around the          *)
(* maximums of the formatters.                                             *)
(***************************************************************************)
LimbValues == {0, 1, 255, 256, Limb - 1}

Sizes ==
    {<<>>} \cup UNION {{size \in [1..n -> LimbValues] : size[n] # 0} : n \in 1..MaxLimbs}

InitFormatter == Empty /\ \E size \in Sizes : call = [op |-> "size", size |-> size]

\* get_number_formatter(size)
GetNumberFormatter ==
    LET outcome == get_number_formatter(call.size)
    IN  /\ call.op = "size"
        /\ call' = [op |-> "get_number_formatter", size |-> call.size,
                    raised |-> outcome.raised, width |-> outcome.width]
        /\ UNCHANGED <<index_vars, writers, release_vars, commit_vars>>

NextFormatter == GetNumberFormatter

SpecFormatter == InitFormatter /\ [][NextFormatter]_vars

(***************************************************************************)
(* The bucket encoding by itself: __format_buckets of an index built with  *)
(* `rows` rows, for pairs of bucket-index sequences of one band (one index *)
(* below rows per bucket), with rows and the indexes around the byte       *)
(* boundaries of the formatters.                                           *)
(***************************************************************************)
EncodingRows == {1, rows, 255, 256, Limb - 1}

IndexValues == {0, 1, 2, 254, 255, 256, 257, Limb - 2}

BucketIndexes(size) ==
    [1..Len(bands[1]) -> {i \in IndexValues : i < size}]

InitEncoding ==
    /\ Empty
    /\ \E size \in EncodingRows : \E a, b \in BucketIndexes(size) :
           call = [op |-> "buckets", rows |-> size, a |-> a, b |-> b]

\* MinHashIndex(cluster, rows, bands, buckets).__format_buckets(bucket), for
\* both sequences
FormatBuckets ==
    LET formatter == get_number_formatter(number(call.rows)).width
    IN  /\ call.op = "buckets"
        /\ call' = [op |-> "format_buckets", rows |-> call.rows,
                    a |-> call.a, b |-> call.b,
                    formatted_a |-> join(formatter, call.a),
                    formatted_b |-> join(formatter, call.b)]
        /\ UNCHANGED <<index_vars, writers, release_vars, commit_vars>>

NextEncoding == FormatBuckets

SpecEncoding == InitEncoding /\ [][NextEncoding]_vars

(***************************************************************************)
(* The scoring by itself: get_similarity for pairs of bucket frequency     *)
(* sequences, one mapping of bucket encodings to counts per band, each     *)
(* normalized with scale_to_total.                                         *)
(***************************************************************************)
Encodings == {format_buckets(<<0, 1>>), format_buckets(<<1, 0>>)}

\* the bucket frequencies of one band: some encodings, counted 1..MaxCount
Frequencies ==
    UNION {[present -> 1..MaxCount] : present \in SUBSET Encodings}

Distributions ==
    {[b \in 1..Len(bands) |-> scale_to_total(counts[b])] :
        counts \in [1..Len(bands) -> Frequencies]}

InitSimilarity ==
    /\ Empty
    /\ \E target, other \in Distributions :
          call = [op |-> "distributions", target |-> target, other |-> other]

\* MinHashIndex.get_similarity(target, other)
GetSimilarity ==
    /\ call.op = "distributions"
    /\ call' = [op |-> "get_similarity", target |-> call.target, other |-> call.other,
                similarity |-> get_similarity(call.target, call.other)]
    /\ UNCHANGED <<index_vars, writers, release_vars, commit_vars>>

NextSimilarity == GetSimilarity

SpecSimilarity == InitSimilarity /\ [][NextSimilarity]_vars

(***************************************************************************)
(* Concurrent record calls. A call computes its signature, queues its      *)
(* sadd and zincrby commands in the cluster.map() block and sends them on  *)
(* leaving it; the commands go to the hosts of their keys, so the commands *)
(* of the calls in progress reach the store one at a time, in any order.   *)
(***************************************************************************)
Writers == 1..MaxWriters

\* the calls of the concurrent writers (any of them by several writers):
\* two keys of one scope with one set, the pair of entities whose key names
\* coincide, and a call that raises
ConcurrentCalls ==
    { <<<<97>>, <<98>>, {0}>>, <<<<97>>, <<99>>, {0}>>,
      <<<<97>>, <<49, 58, 48, 58, 98>>, {0}>>,
      <<<<97, 58, 49, 58, 48>>, <<98>>, {2}>>, <<<<97>>, <<98>>, {}>> }

\* the commands record queues for a call; none when get_signature raises
queued_commands(scope, key, characteristics) ==
    LET signature == get_signature(characteristics)
    IN  IF signature.raised # "" THEN <<>>
        ELSE record_commands(scope, key, signature.value)

\* MinHashIndex.record up to the end of its `with` block
Begin(w, scope, key, characteristics) ==
    /\ w \notin DOMAIN writers
    /\ writers' = (w :> [scope |-> scope, key |-> key,
                         characteristics |-> characteristics,
                         pending |-> DOMAIN queued_commands(scope, key, characteristics)])
                   @@ writers
    /\ UNCHANGED <<index_vars, call, release_vars, commit_vars>>

\* one queued command of writer w reaches the store
Deliver(w, i) ==
    /\ w \in DOMAIN writers
    /\ i \in writers[w].pending
    /\ cluster' = execute_command(cluster,
                       queued_commands(writers[w].scope, writers[w].key,
                                       writers[w].characteristics)[i])
    /\ writers' = [writers EXCEPT ![w].pending = @ \ {i}]
    /\ UNCHANGED <<recorded, events, call, release_vars, commit_vars>>

NextConcurrent ==
    \/ \E w \in Writers : \E c \in ConcurrentCalls : Begin(w, c[1], c[2], c[3])
    \/ \E w \in Writers : \E i \in 1..(2 * Len(bands)) : Deliver(w, i)

SpecConcurrent == Init /\ [][NextConcurrent]_vars

\* the store after the calls of the writers in `order`, made one after another
RECURSIVE sequential(_, _)
sequential(store, order) ==
    IF Len(order) = 0 THEN store
    ELSE LET w == writers[order[1]]
         IN  sequential(record(store, w.scope, w.key, w.characteristics).store,
                        Tail(order))

\* the orders in which the writers of W can be taken one after another
Orders(W) ==
    {o \in [1..Cardinality(W) -> W] : \A i, j \in DOMAIN o : o[i] = o[j] => i = j}

(***************************************************************************)
(* Releases. The Release table is a sequence of rows, the id of a row its  *)
(* index; the rows keep the fields the lookups filter on (dates are left   *)
(* out, so an update of a date changes no row). A call of ReleaseHook or   *)
(* of the TagValue receiver runs in a worker of its own, one statement at  *)
(* a step, so that the statements of concurrent calls interleave.          *)
(***************************************************************************)
Workers == 1..MaxWorkers

\* projects 1 and 2 belong to organization 1, project 3 to organization 2
Projects == {1, 2, 3}
organization_id(project) == IF project = 3 THEN 2 ELSE 1
Versions == {"1.0"}
TagKeys == {"sentry:release", "environment"}

\* Release.objects.filter(organization_id=..., version=...)
filter(table, organization, version) ==
    {id \in DOMAIN table : /\ table[id].organization_id = organization
                           /\ table[id].version = version}

\* Release.objects.filter(organization_id=..., version=..., projects=project)
filter_projects(table, organization, version, project) ==
    {id \in filter(table, organization, version) : project \in table[id].projects}

\* QuerySet.first(): the row of the lowest id, 0 for None
first(ids) ==
    IF ids = {} THEN 0 ELSE CHOOSE id \in ids : \A other \in ids : id <= other

\* Release.objects.get(organization_id=..., version=...)
get(table, organization, version) ==
    LET ids == filter(table, organization, version)
    IN  IF ids = {} THEN [raised |-> "DoesNotExist", id |-> 0]
        ELSE IF Cardinality(ids) > 1 THEN [raised |-> "MultipleObjectsReturned", id |-> 0]
        ELSE [raised |-> "", id |-> first(ids)]

\* Release.objects.create(organization_id=..., version=...)
create(table, organization, version) ==
    Append(table, [organization_id |-> organization, version |-> version,
                   projects |-> {}])

\* release.add_project(project)
add_project(table, id, project) ==
    [table EXCEPT ![id].projects = @ \cup {project}]

\* Release.get_lock_key(organization_id, version)
get_lock_key(organization, version) == <<organization, version>>

\* lock.acquire(): the lock of the key is taken by one holder at a time
can_acquire(held, key) == \A l \in held : l[1] # key
acquire(held, key, w) == held \cup {<<key, w>>}
release(held, key, w) == held \ {<<key, w>>}

\* the receiver that queues the task on every save of a Release
resolve_group_resolutions_on_save(queue, instance, created) ==
    Append(queue, instance)

\* resolve_group_resolutions(instance, created): the queue of
\* clear_expired_resolutions tasks, by release_id
resolve_group_resolutions(queue, instance, created) ==
    IF ~created THEN queue ELSE Append(queue, instance)

\* the worker has made no call yet
idle(w) == w \notin DOMAIN procs

\* the call of worker w starts by looking for the Release of the version
\* that has the project (lines 23-28 of the receiver, 27-32, 67-72 and
\* 97-102 of the hook)
started(w, op, project, key, version, data) ==
    LET organization == organization_id(project)
        affected == filter_projects(releases, organization, version, project)
    IN  (w :> [op |-> op, project |-> project, key |-> key, version |-> version,
               initial |-> data, data |-> data,
               release |-> first(affected), made |-> FALSE,
               pc |-> IF affected # {} THEN "done" ELSE "first"]) @@ procs

\* ReleaseHook.start_release, finish_release and set_commits, up to the
\* first lookup
HookCalled(w, op, project, version) ==
    /\ idle(w)
    /\ procs' = started(w, op, project, "", version, 0)
    /\ UNCHANGED <<index_vars, call, writers, releases, tagvalues, locks, tasks,
                   commit_vars>>

\* a TagValue is saved and post_save calls ensure_release_exists, which
\* returns at once for another key or for data that holds a release_id
TagValueSaved(w, project, key, value) ==
    LET row == <<project, key, value>>
        data == IF row \in DOMAIN tagvalues THEN tagvalues[row] ELSE 0
    IN  /\ idle(w)
        /\ tagvalues' = (row :> data) @@ tagvalues
        /\ procs' = IF key # "sentry:release" \/ data # 0
                    THEN (w :> [op |-> "ensure_release_exists", project |-> project,
                                key |-> key, version |-> value,
                                initial |-> data, data |-> data,
                                release |-> 0, made |-> FALSE, pc |-> "done"]) @@ procs
                    ELSE started(w, "ensure_release_exists", project, key, value, data)
        /\ UNCHANGED <<index_vars, call, writers, releases, locks, tasks, commit_vars>>

\* the second lookup with add_project left to the branch that found none
LookedUpWithoutAdding(w) ==
    LET proc == procs[w]
        found == first(filter(releases, organization_id(proc.project), proc.version))
    IN  /\ w \in DOMAIN procs
        /\ proc.pc = "first"
        /\ procs' = [procs EXCEPT ![w].release = found,
                                  ![w].pc = IF found # 0 THEN "done" ELSE "acquire"]
        /\ UNCHANGED <<index_vars, call, writers, releases, tagvalues, locks, tasks,
                       commit_vars>>

\* Release.objects.filter(organization_id=..., version=...).first()
LookedUp(w) ==
    LET proc == procs[w]
        found == first(filter(releases, organization_id(proc.project), proc.version))
    IN  /\ w \in DOMAIN procs
        /\ proc.pc = "first"
        /\ procs' = [procs EXCEPT ![w].release = found,
                                  ![w].pc = IF found # 0 THEN "add_project" ELSE "acquire"]
        /\ UNCHANGED <<index_vars, call, writers, releases, tagvalues, locks, tasks,
                       commit_vars>>

\* with TimedRetryPolicy(10)(lock.acquire): entered once the lock is free
Acquired(w) ==
    LET proc == procs[w]
        key == get_lock_key(organization_id(proc.project), proc.version)
    IN  /\ w \in DOMAIN procs
        /\ proc.pc = "acquire"
        /\ can_acquire(locks, key)
        /\ locks' = acquire(locks, key, w)
        /\ procs' = [procs EXCEPT ![w].pc = "get"]
        /\ UNCHANGED <<index_vars, call, writers, releases, tagvalues, tasks,
                       commit_vars>>

\* try: release = Release.objects.get(...)
Got(w) ==
    LET proc == procs[w]
        found == get(releases, organization_id(proc.project), proc.version)
    IN  /\ w \in DOMAIN procs
        /\ proc.pc = "get"
        /\ procs' = [procs EXCEPT ![w].release = found.id,
                                  ![w].pc = IF found.raised = "" THEN "unlock"
                                            ELSE IF found.raised = "DoesNotExist"
                                            THEN "create" ELSE "unwind"]
        /\ UNCHANGED <<index_vars, call, writers, releases, tagvalues, locks, tasks,
                       commit_vars>>

\* except Release.DoesNotExist: release = Release.objects.create(...); the
\* post_save of the new row calls resolve_group_resolutions
Created(w) ==
    LET proc == procs[w]
        table == create(releases, organization_id(proc.project), proc.version)
    IN  /\ w \in DOMAIN procs
        /\ proc.pc = "create"
        /\ releases' = table
        /\ tasks' = resolve_group_resolutions(tasks, Len(table), TRUE)
        /\ procs' = [procs EXCEPT ![w].release = Len(table), ![w].made = TRUE,
                                  ![w].pc = IF proc.op = "ensure_release_exists"
                                            THEN "update_data" ELSE "unlock"]
        /\ UNCHANGED <<index_vars, call, writers, tagvalues, locks, commit_vars>>

\* instance.update(data={'release_id': release.id}), in the except branch
DataUpdated(w) ==
    LET proc == procs[w]
    IN  /\ w \in DOMAIN procs
        /\ proc.pc = "update_data"
        /\ tagvalues' = [tagvalues EXCEPT ![<<proc.project, proc.key, proc.version>>]
                                              = proc.release]
        /\ procs' = [procs EXCEPT ![w].data = proc.release, ![w].pc = "unlock"]
        /\ UNCHANGED <<index_vars, call, writers, releases, locks, tasks,
                       commit_vars>>

\* the `with` block is left, by its end or by an exception
Released(w) ==
    LET proc == procs[w]
        key == get_lock_key(organization_id(proc.project), proc.version)
    IN  /\ w \in DOMAIN procs
        /\ proc.pc \in {"unlock", "unwind"}
        /\ locks' = release(locks, key, w)
        /\ procs' = [procs EXCEPT ![w].pc = IF proc.pc = "unlock" THEN "add_project"
                                            ELSE "raised"]
        /\ UNCHANGED <<index_vars, call, writers, releases, tagvalues, tasks,
                       commit_vars>>

\* release.add_project(project), the last statement that touches the table
ProjectAdded(w) ==
    LET proc == procs[w]
    IN  /\ w \in DOMAIN procs
        /\ proc.pc = "add_project"
        /\ releases' = add_project(releases, proc.release, proc.project)
        /\ procs' = [procs EXCEPT ![w].pc = "done"]
        /\ UNCHANGED <<index_vars, call, writers, tagvalues, locks, tasks,
                       commit_vars>>

\* a Release that exists is saved again: post_save with created=False
ReleaseSaved(w, id) ==
    /\ idle(w)
    /\ id \in DOMAIN releases
    /\ tasks' = resolve_group_resolutions(tasks, id, FALSE)
    /\ procs' = (w :> [op |-> "Release.save", project |-> 0, key |-> "",
                       version |-> releases[id].version, initial |-> 0, data |-> 0,
                       release |-> id, made |-> FALSE, pc |-> "done"]) @@ procs
    /\ UNCHANGED <<index_vars, call, writers, releases, tagvalues, locks, commit_vars>>

HookOps == {"start_release", "finish_release", "set_commits"}

NextReleases ==
    \/ \E w \in Workers : \E op \in HookOps : \E project \in Projects :
          \E version \in Versions : HookCalled(w, op, project, version)
    \/ \E w \in Workers : \E project \in Projects : \E key \in TagKeys :
          \E value \in Versions : TagValueSaved(w, project, key, value)
    \/ \E w \in Workers : LookedUp(w)
    \/ \E w \in Workers : Acquired(w)
    \/ \E w \in Workers : Got(w)
    \/ \E w \in Workers : Created(w)
    \/ \E w \in Workers : DataUpdated(w)
    \/ \E w \in Workers : Released(w)
    \/ \E w \in Workers : ProjectAdded(w)
    \/ \E w \in Workers : \E id \in 1..MaxWorkers : ReleaseSaved(w, id)

SpecReleases == Init /\ [][NextReleases]_vars

(***************************************************************************)
(* Commits. A message is kept as the short id that the pattern             *)
(* \bFixes ([A-Za-z0-9_-]+-[A-Z0-9]+)\b finds in it, "" when it finds      *)
(* none; the Group table is fixed.                                         *)
(***************************************************************************)
GroupTable ==
    << [organization_id |-> 1, short_id |-> "SENTRY-1"],
       [organization_id |-> 2, short_id |-> "OTHER-2"] >>

Messages == {[fixes |-> ""], [fixes |-> "SENTRY-1"], [fixes |-> "OTHER-2"],
             [fixes |-> "ABSENT-3"]}

\* re.search(pattern, string): called with the arguments `arguments`, it
\* raises TypeError unless it is given the pattern and the string
re_search(arguments) ==
    IF Len(arguments) < 2 THEN [raised |-> "TypeError", match |-> ""]
    ELSE [raised |-> "", match |-> arguments[2].fixes]

\* Group.objects.get(project__organization=..., short_id=...): 0 for
\* Group.DoesNotExist
group_get(organization, short_id) ==
    LET ids == {id \in DOMAIN GroupTable :
                   /\ GroupTable[id].organization_id = organization
                   /\ GroupTable[id].short_id = short_id}
    IN  IF ids = {} THEN 0 ELSE CHOOSE id \in ids : TRUE

\* resolved_in_commit(instance, created): the error raised, "" for none,
\* and the GroupCommitResolution table it leaves
resolved_in_commit(table, id, instance, created) ==
    IF ~created THEN [raised |-> "", table |-> table]
    ELSE LET found == re_search(<<"\\bFixes ([A-Za-z0-9_-]+-[A-Z0-9]+)\\b">>)
         IN  IF found.raised # "" THEN [raised |-> found.raised, table |-> table]
             ELSE IF found.match = "" THEN [raised |-> "", table |-> table]
             ELSE LET group == group_get(instance.organization_id, found.match)
                  IN  IF group = 0 THEN [raised |-> "", table |-> table]
                      ELSE [raised |-> "", table |-> table \cup {<<group, id>>}]

\* Commit.objects.create(organization_id=..., message=...): the row is
\* inserted and post_save calls resolved_in_commit with created=True
CommitCreated(organization, message) ==
    LET instance == [organization_id |-> organization, message |-> message]
        id == Len(commits) + 1
        outcome == resolved_in_commit(resolutions, id, instance, TRUE)
    IN  /\ Len(commits) < MaxCommits
        /\ commits' = Append(commits, instance)
        /\ resolutions' = outcome.table
        /\ call' = [op |-> "Commit.create", commit |-> id, raised |-> outcome.raised]
        /\ UNCHANGED <<index_vars, writers, release_vars>>

\* commit.save() of a row that exists: post_save with created=False
CommitSaved(id) ==
    LET outcome == resolved_in_commit(resolutions, id, commits[id], FALSE)
    IN  /\ id \in DOMAIN commits
        /\ resolutions' = outcome.table
        /\ call' = [op |-> "Commit.save", commit |-> id, raised |-> outcome.raised]
        /\ UNCHANGED <<index_vars, writers, release_vars, commits>>

NextCommits ==
    \/ \E organization \in {1, 2} : \E message \in Messages :
          CommitCreated(organization, message)
    \/ \E id \in 1..MaxCommits : CommitSaved(id)

SpecCommits == Init /\ [][NextCommits]_vars

(***************************************************************************)
(* Helpers of the properties.                                              *)
(***************************************************************************)
\* the frequency fact (scope, band, key): bucket encoding -> count
frequency_fact(scope, band, key) ==
    zrange(cluster, format_key(scope, BUCKET_FREQUENCY, band, key))

\* the membership fact (scope, band, encoding): set of keys
membership_fact(scope, band, encoding) ==
    smembers(cluster, format_key(scope, BUCKET_MEMBERSHIP, band, encoding))

\* completed record calls for (scope, key)
calls_for(scope, key) ==
    LET entries == {e \in DOMAIN recorded : e[1] = scope /\ e[2] = key}
    IN  sum(recorded, entries)

\* the characteristic sets (scope, key) was recorded with
sets_of(scope, key) ==
    {e[3] : e \in {x \in DOMAIN recorded : x[1] = scope /\ x[2] = key}}

Entries(result) == {result[i] : i \in 1..Len(result)}
ResultKeys(result) == {result[i][1] : i \in 1..Len(result)}
Bands == 0..(Len(bands) - 1)

\* the columns that a characteristic set occupies
occupied(characteristics) == {token % rows : token \in characteristics}

\* the similarity that the result gives the key; -1 when it leaves it out
similarity_in(result, key) ==
    IF key \in ResultKeys(result)
    THEN (CHOOSE x \in Entries(result) : x[1] = key)[2]
    ELSE -1

\* the number of bytes that the size takes, 0 for size 0
bytes_of(size) ==
    IF Len(size) = 0 THEN 0
    ELSE 2 * (Len(size) - 1) + (IF size[Len(size)] >= 256 THEN 2 ELSE 1)

\* the size without the limbs that are 0 at its end
RECURSIVE normal(_)
normal(size) ==
    IF Len(size) = 0 \/ size[Len(size)] # 0 THEN size
    ELSE normal(SubSeq(size, 1, Len(size) - 1))

\* size - 1, for a size above 0
RECURSIVE borrowed(_)
borrowed(size) ==
    IF size[1] > 0 THEN <<size[1] - 1>> \o Tail(size)
    ELSE <<Limb - 1>> \o borrowed(Tail(size))
minus_one(size) == normal(borrowed(size))

\* the least of the widths 1, 2, 4, 8 that has `bytes` bytes, 0 for none
least_width(bytes) ==
    IF bytes <= 1 THEN 1 ELSE IF bytes <= 2 THEN 2
    ELSE IF bytes <= 4 THEN 4 ELSE IF bytes <= 8 THEN 8 ELSE 0

\* the workers whose call of ensure_release_exists was for a TagValue of
\* key 'sentry:release'
Ensuring ==
    {w \in DOMAIN procs : /\ procs[w].op = "ensure_release_exists"
                          /\ procs[w].key = "sentry:release"}

\* the Releases of the caller's organization and version that have its project
releases_of(proc) ==
    {id \in DOMAIN releases :
        /\ releases[id].organization_id = organization_id(proc.project)
        /\ releases[id].version = proc.version
        /\ proc.project \in releases[id].projects}

(***************************************************************************)
(* C1: records and queries never cross scopes: a record call in one scope  *)
(* changes the result of no query in another scope, whatever the keys.     *)
(***************************************************************************)
C1_ScopesIsolated ==
    [][call'.op = "record" =>
          \A s2 \in Scopes \ {call'.scope} : \A k2 \in Keys :
              query(cluster', s2, k2) = query(cluster, s2, k2)]_vars

(***************************************************************************)
(* C2: a query call leaves every membership set and every frequency        *)
(* sorted set as it was.                                                   *)
(***************************************************************************)
C2_QueryReadOnly == [][call'.op = "query" => cluster' = cluster]_vars

\* a query answered from a store that holds facts
C2_Witness ==
    /\ call.op = "query"
    /\ Len(call.result) > 0
    /\ DOMAIN cluster.sets # {} /\ DOMAIN cluster.zsets # {}

(***************************************************************************)
(* C3: counts are cumulative, each completed record call adding 1 to one   *)
(* count of every band of its own frequency fact and to no other count:    *)
(* after n completed record calls for (scope, key), the counts of each     *)
(* band of the frequency fact (scope, band, key) sum to n.                 *)
(***************************************************************************)
C3_CountsCumulative ==
    \A s \in Scopes : \A k \in Keys : \A b \in Bands :
        LET fact == frequency_fact(s, b, k)
        IN  sum(fact, DOMAIN fact) = calls_for(s, k)

C5_NoCandidateDropped ==
    call.op = "query" =>
        ResultKeys(call.result) =
            {k \in Keys : \E b \in Bands :
                \E e \in DOMAIN frequency_fact(call.scope, b, call.key) :
                    /\ frequency_fact(call.scope, b, call.key)[e] > 0
                    /\ k \in membership_fact(call.scope, b, e)}

\* a result that holds a key sharing one band only with the queried key,
\* while another key of the scope, sharing none, is left out
C5_Witness ==
    /\ call.op = "query"
    /\ \E x \in Entries(call.result) : x[1] # call.key /\ x[2] < Scale
    /\ \E k \in Keys : calls_for(call.scope, k) > 0 /\ k \notin ResultKeys(call.result)

(***************************************************************************)
(* C6: the result of a query is in descending order of similarity, equal   *)
(* similarities in ascending order of key, and holds no key twice.         *)
(***************************************************************************)
C6_ResultOrdered ==
    call.op = "query" =>
        /\ \A i \in 1..(Len(call.result) - 1) :
              \/ call.result[i][2] > call.result[i + 1][2]
              \/ /\ call.result[i][2] = call.result[i + 1][2]
                 /\ str_lt(call.result[i][1], call.result[i + 1][1])
        /\ \A i, j \in 1..Len(call.result) :
              call.result[i][1] = call.result[j][1] => i = j

\* a result with a tie broken by key and a strictly lower entry after it
C6_Witness ==
    /\ call.op = "query"
    /\ Len(call.result) = 3
    /\ call.result[1][2] = call.result[2][2]
    /\ call.result[2][2] > call.result[3][2]

(***************************************************************************)
(* C7: two keys g1 < g2 that were recorded in scope s with one and the     *)
(* same characteristic set, s holding no other record: query(s, g1)        *)
(* returns g1 first with similarity 1 and holds g2 with similarity 1, and  *)
(* query(s, g2) holds g1 with similarity 1.                                *)
(***************************************************************************)
C7_IdenticalSetsScoreOne ==
    \A g1, g2 \in Keys :
        ( /\ call.op = "query"
          /\ str_lt(g1, g2)
          /\ call.key \in {g1, g2}
          /\ sets_of(call.scope, g1) # {}
          /\ sets_of(call.scope, g1) = sets_of(call.scope, g2)
          /\ Cardinality(sets_of(call.scope, g1)) = 1
          /\ \A k \in Keys \ {g1, g2} : calls_for(call.scope, k) = 0 )
        => /\ <<g1, Scale>> \in Entries(call.result)
           /\ <<g2, Scale>> \in Entries(call.result)
           /\ call.result[1] = <<g1, Scale>>

(***************************************************************************)
(* C8: GroupFeatureManager.record returns one outcome per feature, in the  *)
(* order of the features: (False, error) for a feature whose record        *)
(* raises and (True, None) for one whose record succeeds, and the writes   *)
(* of every feature that succeeds are made whichever features fail.        *)
(***************************************************************************)
C8_FailuresIsolated ==
    [][call'.op = "features.record" =>
          LET event == call'.event
              key == feature_key(event.group)
          IN  /\ Len(call'.results) = Len(features_items)
              /\ \A i \in 1..Len(features_items) :
                    LET label == features_items[i]
                        scope == feature_scope(label, event.group)
                    IN  IF ~event.has_exception
                        THEN call'.results[i] = <<FALSE, "KeyError">>
                        ELSE IF event.tokens[label] = {}
                        THEN call'.results[i] = <<FALSE, "StopIteration">>
                        ELSE /\ call'.results[i] = <<TRUE, "None">>
                             /\ \A b \in Bands :
                                   LET e == format_buckets(
                                                get_signature(event.tokens[label]).value[b + 1])
                                       name == format_key(scope, BUCKET_FREQUENCY, b, key)
                                       old == zrange(cluster, name)
                                   IN  /\ key \in smembers(cluster',
                                              format_key(scope, BUCKET_MEMBERSHIP, b, e))
                                       /\ zrange(cluster', name)[e] =
                                              (IF e \in DOMAIN old THEN old[e] ELSE 0) + 1]_vars

\* a call whose first feature failed and whose later features succeeded
C8_Witness ==
    /\ call.op = "features.record"
    /\ call.results[1][1] = FALSE
    /\ call.results[2][1] = TRUE
    /\ call.results[3][1] = TRUE

(***************************************************************************)
(* C9: GroupFeatureManager.query returns, for exactly the keys the         *)
(* features return, the similarity of each feature that returned the key,  *)
(* under that feature's label, each key once, in descending order of the   *)
(* sum of its similarities, a label the key lacks counting 0.              *)
(***************************************************************************)
C9_MergedByKey ==
    call.op = "features.query" =>
        LET result == call.result
            total(i) == sum([label \in DOMAIN features |->
                               IF label \in DOMAIN result[i][2]
                               THEN result[i][2][label] ELSE 0], DOMAIN features)
        IN  /\ UNION {{<<result[i][1], label, result[i][2][label]>> :
                           label \in DOMAIN result[i][2]} : i \in 1..Len(result)}
                 = UNION {{<<x[1], label, x[2]>> :
                              x \in Entries(feature_query(cluster, label, call.group))} :
                            label \in DOMAIN features}
            /\ \A i, j \in 1..Len(result) : result[i][1] = result[j][1] => i = j
            /\ \A i \in 1..(Len(result) - 1) : total(i) >= total(i + 1)

\* two keys, the second lacking a label of the first and summing to less
C9_Witness ==
    /\ call.op = "features.query"
    /\ Len(call.result) = 2
    /\ DOMAIN call.result[2][2] # DOMAIN call.result[1][2]
    /\ DOMAIN call.result[2][2] \subseteq DOMAIN call.result[1][2]
    /\ Cardinality(DOMAIN call.result[2][2]) > 1
    /\ total_similarity(call.result[1][2]) > total_similarity(call.result[2][2])

(***************************************************************************)
(* C10: a record call with an empty characteristic set raises, and leaves  *)
(* every membership and frequency fact as it was.                          *)
(***************************************************************************)
C10_EmptyInputRejected ==
    [][(call'.op = "record" /\ call'.characteristics = {})
          => (call'.raised = "StopIteration" /\ cluster' = cluster)]_vars

\* an empty record call made on a store that holds facts
C10_Witness ==
    /\ call.op = "record"
    /\ call.characteristics = {}
    /\ call.raised = "StopIteration"
    /\ DOMAIN cluster.sets # {}

(***************************************************************************)
(* C11: facts only grow: over every step, each membership set holds the    *)
(* keys it held before and each frequency count is at least what it was;   *)
(* no set, no sorted set and no member of one is removed.                  *)
(***************************************************************************)
C11_FactsOnlyGrow ==
    [][/\ \A name \in DOMAIN cluster.sets :
              /\ name \in DOMAIN cluster'.sets
              /\ cluster.sets[name] \subseteq cluster'.sets[name]
       /\ \A name \in DOMAIN cluster.zsets :
              /\ name \in DOMAIN cluster'.zsets
              /\ \A member \in DOMAIN cluster.zsets[name] :
                    /\ member \in DOMAIN cluster'.zsets[name]
                    /\ cluster'.zsets[name][member] >= cluster.zsets[name][member]]_vars

\* a record call that added a key to a membership set holding another key
\* and a second bucket to a frequency fact that already counted one
C11_Witness ==
    /\ call.op = "record"
    /\ call.raised = ""
    /\ \E name \in DOMAIN cluster.sets :
          /\ call.key \in cluster.sets[name]
          /\ Cardinality(cluster.sets[name]) > 1
    /\ \E name \in DOMAIN cluster.zsets :
          Cardinality(DOMAIN cluster.zsets[name]) > 1

(***************************************************************************)
(* C12: concurrent writers commute: whenever every command of the record   *)
(* calls begun so far has reached the store, in whatever order the         *)
(* commands of the calls were interleaved, the store is the one that the   *)
(* same calls leave when made one after another, in any order; no sadd     *)
(* and no increment is lost.                                               *)
(***************************************************************************)
C12_WritersCommute ==
    (\A w \in DOMAIN writers : writers[w].pending = {})
        => \A order \in Orders(DOMAIN writers) :
               cluster = sequential([sets |-> <<>>, zsets |-> <<>>], order)

\* two calls for one scope and key, and two for two keys of one bucket,
\* have both been executed in full
C12_Witness ==
    /\ DOMAIN writers = Writers
    /\ \A w \in Writers : writers[w].pending = {}
    /\ \E name \in DOMAIN cluster.zsets : \E member \in DOMAIN cluster.zsets[name] :
          cluster.zsets[name][member] > 1
    /\ \E v, w \in Writers : v # w /\ writers[v].scope = writers[w].scope
                                  /\ writers[v].key = writers[w].key

C14_ReleaseIdStored ==
    \A w \in Ensuring :
        (procs[w].pc = "done" /\ procs[w].initial = 0)
            => procs[w].data \in releases_of(procs[w])

\* C14, amended: once the handler has run for such a TagValue, a Release of
\* its value and of its project's organization has the project; the data
\* holds the release_id of that Release when the handler created it, and
\* is left without a release_id when the Release was there already. A save
\* of a TagValue whose data holds a release_id returns at once; no save
\* raises, and none leaves two Releases of one organization and version.
C14_ReleaseEnsured ==
    \A w \in Ensuring :
        /\ procs[w].pc # "raised"
        /\ (procs[w].pc = "done" /\ procs[w].initial = 0)
              => /\ releases_of(procs[w]) # {}
                 /\ procs[w].made => procs[w].data \in releases_of(procs[w])
                 /\ ~procs[w].made => procs[w].data = 0
        /\ procs[w].initial # 0 => (procs[w].pc = "done" /\ ~procs[w].made)
        /\ Cardinality(filter(releases, organization_id(procs[w].project),
                              procs[w].version)) <= 1

\* a handler created the Release and stored its id, and a later save of
\* the same TagValue returned at once
C14_Witness ==
    \E v, w \in Ensuring :
        /\ procs[v].pc = "done" /\ procs[v].made
        /\ procs[v].data \in releases_of(procs[v])
        /\ procs[w].project = procs[v].project
        /\ procs[w].pc = "done" /\ procs[w].initial = procs[v].data

(***************************************************************************)
(* C15: when a Commit is created whose message holds 'Fixes <short id>'    *)
(* for the short id of a Group of the commit's organization, the           *)
(* resolved_in_commit handler completes without error and a                *)
(* GroupCommitResolution links that group and the commit; for any other    *)
(* message no GroupCommitResolution is made for the commit.                *)
(***************************************************************************)
C15_FixesResolves ==
    call.op = "Commit.create" =>
        LET commit == commits[call.commit]
            group == group_get(commit.organization_id, commit.message.fixes)
            made == {r \in resolutions : r[2] = call.commit}
        IN  IF commit.message.fixes # "" /\ group # 0
            THEN call.raised = "" /\ made = {<<group, call.commit>>}
            ELSE made = {}

(***************************************************************************)
(* C16: the clear_expired_resolutions task is queued exactly once for      *)
(* every Release, with the id of that Release, by the save that creates    *)
(* it: a step queues a task only when it creates a Release, and then the   *)
(* one task of the new id; no later save or update of a Release and no     *)
(* add_project queues another.                                             *)
(***************************************************************************)
C16_QueuedOncePerRelease ==
    [][/\ IF Len(releases') > Len(releases)
          THEN /\ Len(releases') = Len(releases) + 1
               /\ tasks' = Append(tasks, Len(releases'))
          ELSE tasks' = tasks
       /\ \A id \in DOMAIN releases' :
              Cardinality({i \in DOMAIN tasks' : tasks'[i] = id}) = 1
       /\ \A i \in DOMAIN tasks' : tasks'[i] \in DOMAIN releases']_vars

\* a Release that was created, given a project and saved again, with its
\* one task queued
C16_Witness ==
    \E w \in DOMAIN procs :
        /\ procs[w].op = "Release.save"
        /\ releases[procs[w].release].projects # {}
        /\ tasks = <<procs[w].release>>

(***************************************************************************)
(* C17: for every rows > 0, get_number_formatter returns the smallest of   *)
(* the 1-, 2-, 4- and 8-byte encodings whose maximum is >= rows - 1, and   *)
(* raises exactly when rows is beyond the range of the 8-byte encoding.    *)
(***************************************************************************)
C17_SmallestForRowsMinusOne ==
    (call.op = "get_number_formatter" /\ call.size # <<>>)
        => /\ (call.raised # "") = (bytes_of(call.size) > 8)
           /\ call.raised = "" => call.width = least_width(bytes_of(minus_one(call.size)))

\* C17, amended: for every rows > 0, get_number_formatter returns the
\* smallest of the 1-, 2-, 4- and 8-byte encodings whose maximum is >= rows,
\* and raises ValueError exactly when rows is above 2 ** 64 - 1.
C17_SmallestForRows ==
    (call.op = "get_number_formatter" /\ call.size # <<>>)
        => /\ (call.raised = "ValueError") = (bytes_of(call.size) > 8)
           /\ call.raised \in {"", "ValueError"}
           /\ call.raised = "" => call.width = least_width(bytes_of(call.size))

\* the formatter of 2 ** 32: the 4-byte maximum is 2 ** 32 - 1, so 8 bytes
C17_Witness ==
    /\ call.op = "get_number_formatter"
    /\ call.size = <<0, 0, 1>>
    /\ call.raised = ""
    /\ call.width = 8

C19_SimilaritySymmetric ==
    call.op = "get_similarity"
        => call.similarity = get_similarity(call.other, call.target)

\* a pair that differs in the encodings of a band and scores strictly
\* between 0 and 1
C19_Witness ==
    /\ call.op = "get_similarity"
    /\ DOMAIN call.target[1] # DOMAIN call.other[1]
    /\ DOMAIN call.target[1] # {}
    /\ call.similarity > 0
    /\ call.similarity < Scale

(***************************************************************************)
(* C20: under every interleaving of concurrent start_release,              *)
(* finish_release, set_commits and ensure_release_exists calls, at most    *)
(* one Release of an organization and version is ever created; a Release   *)
(* is created only by a call that holds the lock of the organization and   *)
(* version, after its lookup under that lock found none, so at a moment    *)
(* when none exists; and every call ends, without raising, with a Release  *)
(* of its version that has the caller's project.                           *)
(***************************************************************************)
C20_OneReleasePerVersion ==
    [][/\ \A project \in Projects : \A version \in Versions :
              Cardinality(filter(releases', organization_id(project), version)) <= 1
       /\ Len(releases') > Len(releases) =>
              \E w \in DOMAIN procs :
                  LET organization == organization_id(procs[w].project)
                  IN  /\ procs[w].pc = "create"
                      /\ procs'[w].release = Len(releases')
                      /\ <<get_lock_key(organization, procs[w].version), w>> \in locks
                      /\ filter(releases, organization, procs[w].version) = {}
                      /\ filter(releases', organization, procs[w].version)
                             = {Len(releases')}
       /\ \A w \in DOMAIN procs' :
              /\ procs'[w].pc # "raised"
              /\ ( /\ procs'[w].pc = "done"
                    /\ \/ procs'[w].op \in HookOps
                       \/ /\ procs'[w].op = "ensure_release_exists"
                          /\ procs'[w].key = "sentry:release" )
                  => filter_projects(releases', organization_id(procs'[w].project),
                                     procs'[w].version, procs'[w].project) # {}]_vars

(***************************************************************************)
(* C21: membership and frequency facts agree whenever no record call is    *)
(* in progress: for every scope, band, key and encoded bucket sequence e,  *)
(* the key is a member of the membership set (scope, band, e) if and only  *)
(* if e has a count above 0 in the frequency fact (scope, band, key).      *)
(***************************************************************************)
C21_FactsAgree ==
    (\A w \in DOMAIN writers : writers[w].pending = {})
        => \A s \in Scopes : \A k \in Keys : \A b \in Bands :
               \A e \in {format_buckets(bucket) :
                             bucket \in [1..Len(bands[b + 1]) -> 0..(rows - 1)]} :
                   (k \in membership_fact(s, b, e))
                       <=> /\ e \in DOMAIN frequency_fact(s, b, k)
                           /\ frequency_fact(s, b, k)[e] > 0

(***************************************************************************)
(* C22: the bucket key encoding is comparison-free: for a fixed index      *)
(* configuration, two bucket-index sequences (one index in [0, rows) per   *)
(* bucket) have byte-identical encodings if and only if they are equal,    *)
(* so within a scope and band two different sequences name different       *)
(* membership sets and are different entries of a frequency fact.          *)
(***************************************************************************)
C22_EncodingInjective ==
    call.op = "format_buckets"
        => /\ (call.formatted_a = call.formatted_b) <=> (call.a = call.b)
           /\ \A s \in Scopes : \A band \in Bands :
                  (format_key(s, BUCKET_MEMBERSHIP, band, call.formatted_a)
                       = format_key(s, BUCKET_MEMBERSHIP, band, call.formatted_b))
                      <=> (call.a = call.b)

\* two different sequences whose two-byte encodings hold the same bytes in
\* different places
C22_Witness ==
    /\ call.op = "format_buckets"
    /\ call.rows = 256
    /\ call.a = <<1, 0>>
    /\ call.b = <<0, 255>>
    /\ call.formatted_a = <<0, 1, 0, 0>>
    /\ call.formatted_b = <<0, 0, 0, 255>>

=============================================================================
